---- MODULE Spec2Model ----
(***************************************************************************)
(* A model of the Minecraft server setup wizard of src/main.py.            *)
(*                                                                         *)
(* One behaviour is a sequence of runs of the script in one working        *)
(* directory.  A run is the call of main() inside the top-level            *)
(* try/except KeyboardInterrupt; pc is the position of that call.  Every   *)
(* blocking call (a prompt, an HTTP request, a disk write, a child         *)
(* process) is one action whose outcome is an input of the action: the     *)
(* answer of the user, the response of the registry, an error of the       *)
(* operating system, or an interrupt (Ctrl-C).                             *)
(***************************************************************************)
EXTENDS Integers, Sequences, FiniteSets, TLC

(***************************************************************************)
(* Bounds of the model.                                                    *)
(***************************************************************************)
\* how many runs of the script one behaviour holds
MaxRuns == 2
\* how many entries of the plugins dictionary (in its order) are modelled
MaxPlugins == 2

(***************************************************************************)
(* Python values.                                                          *)
(***************************************************************************)
None == "None"

\* str(b) for a build number
Str(b) == ToString(b)

\* software.lower() for the two choices of the software prompt
Lower(s) == CASE s = "Paper" -> "paper"
              [] s = "Purpur" -> "purpur"
              [] OTHER -> s

\* list.reverse()
RECURSIVE Reverse(_)
Reverse(s) == IF s = <<>> THEN <<>> ELSE Append(Reverse(Tail(s)), Head(s))

\* [str(b) for b in data["builds"]]
StrAll(bs) == [i \in 1..Len(bs) |-> Str(bs[i])]

\* builds[-1]
Last(s) == s[Len(s)]

(***************************************************************************)
(* What the environment can answer.                                        *)
(***************************************************************************)
SoftwareChoices == {"Paper", "Purpur"}

\* the "versions" array of the catalog, oldest first
CatalogVersions == <<"1.20.1", "1.21">>

\* data["builds"] of Paper (integers) and data["builds"]["all"] of Purpur
\* (strings); the registry's order is not always ascending
PaperBuildLists == {<<>>, <<10, 11, 12>>, <<12, 11>>}
PurpurBuildLists == {<<>>, <<"10", "11", "12">>, <<"12", "11">>}

\* texts the operator can enter at a RAM prompt
RamTexts == {"", "4G"}

\* the plugins dictionary of install_plugins, in insertion order
PluginNames == <<"Chunky", "ViaVersion", "ViaBackwards", "LuckPerms", "TAB">>
PluginSlugs == <<"chunky", "viaversion", "viabackwards", "luckperms", "tab">>
NumPlugins == IF MaxPlugins < Len(PluginNames) THEN MaxPlugins ELSE Len(PluginNames)
plugins == [i \in 1..NumPlugins |-> <<PluginNames[i], PluginSlugs[i]>>]

\* one entry of the "files" array of a Modrinth version
ModFile(slug, tag, primary) ==
    [url |-> "https://cdn/" \o slug \o "/" \o tag,
     filename |-> slug \o "-" \o tag \o ".jar",
     primary |-> primary]

\* version objects of the registry for a slug: without files, with a
\* primary file that is not the first, and without a primary file
VerNoFiles(slug) == [id |-> slug \o "-v3", files |-> <<>>]
VerPrimary(slug) == [id |-> slug \o "-v2",
                     files |-> <<ModFile(slug, "api", FALSE), ModFile(slug, "main", TRUE)>>]
VerNoPrimary(slug) == [id |-> slug \o "-v1",
                       files |-> <<ModFile(slug, "main", FALSE), ModFile(slug, "api", FALSE)>>]

\* what a GET of /project/{slug}/version can yield: a failed request, or
\* the JSON array of the compatible versions, newest first
ModrinthResponses(slug) ==
    [status : {"RequestException", "KeyboardInterrupt"}, json : {<<>>}] \cup
    [status : {"ok"},
     json : {<<>>, <<VerNoFiles(slug)>>, <<VerPrimary(slug), VerNoFiles(slug)>>,
             <<VerNoPrimary(slug)>>}]

\* eula.txt as agree_to_eula writes it
EulaText == "eula=true\n"

VARIABLES
    pc,               \* position of the run in main() and its callees
    exit,             \* how the run ended: "" while it runs
    console,          \* the messages printed in this run
    events,           \* <<step, outcome>> of every step of main() in this run
    fs,               \* the working directory
    fs0,              \* the working directory when this run started
    run,              \* number of the run
    software,         \* main: software
    versions,         \* main: versions
    selected_version, \* main: selected_version
    builds,           \* main: builds
    latest_build,     \* main: latest_build
    jar_file,         \* main: jar_file
    valid_plugins,    \* install_plugins: valid_plugins (name -> version object)
    choices,          \* install_plugins: choices
    selected_names,   \* install_plugins: selected_names
    idx,              \* install_plugins: position of the running for loop
    responses,        \* install_plugins: what the registry answered for each name
    fetched,          \* install_plugins: <<name, outcome>> of each download so far
    script_created,   \* main: script_created
    ram_allocated,    \* main: ram_allocated
    ram,              \* start_server: ram
    cmd               \* start_server: cmd, once subprocess.run was called

locals == <<software, versions, selected_version, builds, latest_build, jar_file,
            valid_plugins, choices, selected_names, idx, responses, fetched,
            script_created,
            ram_allocated, ram, cmd>>
vars == <<pc, exit, console, events, fs, fs0, run, locals>>

mainLocals == <<software, versions, selected_version, builds, latest_build, jar_file,
                script_created, ram_allocated>>
pluginLocals == <<valid_plugins, choices, selected_names, idx, responses, fetched>>
startLocals == <<ram, cmd>>

(***************************************************************************)
(* The working directory before the first run.                             *)
(***************************************************************************)
\* a start.sh left by an earlier installation
NoFile == [exists |-> FALSE, text |-> "", exec |-> FALSE]
OldScript == [exists |-> TRUE, text |-> "#!/bin/sh\njava -jar server.jar", exec |-> TRUE]
NoDir == [exists |-> FALSE, files |-> {}]
EmptyDir == [exists |-> TRUE, files |-> {}]

\* jars: the names of the jar files; eula: the text of eula.txt or
\* "absent"; plugins: the plugins directory; startsh: start.sh
FreshDir == [jars |-> {}, eula |-> "absent", plugins |-> NoDir, startsh |-> NoFile]
\* an installation whose server was started once and wrote eula=false
UsedDir == [jars |-> {}, eula |-> "eula=false\n", plugins |-> EmptyDir, startsh |-> OldScript]
\* the same after its eula.txt was removed
ResetDir == [jars |-> {}, eula |-> "absent", plugins |-> EmptyDir, startsh |-> OldScript]

InitialDirs == {FreshDir, UsedDir, ResetDir}

FreshLocals ==
    /\ software = None
    /\ versions = <<>>
    /\ selected_version = None
    /\ builds = <<>>
    /\ latest_build = None
    /\ jar_file = None
    /\ valid_plugins = <<>>
    /\ choices = <<>>
    /\ selected_names = <<>>
    /\ idx = 0
    /\ responses = <<>>
    /\ fetched = <<>>
    /\ script_created = FALSE
    /\ ram_allocated = None
    /\ ram = None
    /\ cmd = <<>>

Init ==
    /\ pc = "software_prompt"
    /\ exit = ""
    /\ console = {}
    /\ events = {}
    /\ fs \in InitialDirs
    /\ fs0 = fs
    /\ run = 1
    /\ FreshLocals

(***************************************************************************)
(* How a run ends.                                                         *)
(***************************************************************************)
\* exceptions that nothing in the script catches: the interpreter prints a
\* traceback
Uncaught == {"TypeError", "OSError", "IndexError"}


\* a return of main() after printing msgs
Return(msgs) ==
    /\ pc' = "done"
    /\ exit' = "return"
    /\ console' = console \cup msgs

\* sys.exit(1) after printing msgs
SysExit(msgs) ==
    /\ pc' = "done"
    /\ exit' = "SystemExit"
    /\ console' = console \cup msgs

\* an exception e leaves main() after msgs were printed: the handler of the
\* top-level try catches KeyboardInterrupt alone
RaiseAfter(e, msgs) ==
    /\ pc' = "done"
    /\ exit' = e
    /\ console' = console \cup msgs \cup
          (CASE e = "KeyboardInterrupt" -> {"Exiting..."}
             [] e \in Uncaught -> {"Traceback"}
             [] OTHER -> {})

Unwind(e) == RaiseAfter(e, {})

\* the step goes on to position p after printing msgs
Goto(p, msgs) ==
    /\ pc' = p
    /\ exit' = exit
    /\ console' = console \cup msgs

\* the exit status of the process
ExitCode(e) == IF e \in {"return", "KeyboardInterrupt"} THEN 0 ELSE 1

Log(step, outcome) == events' = events \cup {<<step, outcome>>}

(***************************************************************************)
(* Prompts.  inquirer.prompt returns the answers, or None when the         *)
(* operator cancels it with Ctrl-C, after printing "Cancelled by user".    *)
(***************************************************************************)
ConfirmAnswers == {"yes", "no", None}

Cancelled(ans) == IF ans = None THEN {"Cancelled by user"} ELSE {}

(***************************************************************************)
(* 1. Select Software                                                      *)
(***************************************************************************)
PromptSoftware(ans) ==
    /\ pc = "software_prompt"
    /\ Log("software_prompt", ans)
    /\ IF ans = None
       THEN Return(Cancelled(ans)) /\ UNCHANGED software
       ELSE Goto("get_versions", {}) /\ software' = ans
    /\ UNCHANGED <<fs, fs0, run, versions, selected_version, builds, latest_build,
                   jar_file, script_created, ram_allocated, pluginLocals, startLocals>>

(***************************************************************************)
(* 2. Select Version                                                       *)
(***************************************************************************)
CatalogStatus == {"ok", "RequestException", "KeyboardInterrupt"}

GetVersions(status, list) ==
    /\ pc = "get_versions"
    /\ Log("get_versions", status)
    /\ CASE status = "ok" ->
              /\ versions' = Reverse(list)
              /\ Goto("version_prompt", {})
         [] status = "RequestException" ->
              /\ SysExit({"Error fetching versions"})
              /\ UNCHANGED versions
         [] OTHER ->
              /\ Unwind(status)
              /\ UNCHANGED versions
    /\ UNCHANGED <<fs, fs0, run, software, selected_version, builds, latest_build,
                   jar_file, script_created, ram_allocated, pluginLocals, startLocals>>

PromptVersion(ans) ==
    /\ pc = "version_prompt"
    /\ Log("version_prompt", ans)
    /\ IF ans = None
       THEN Return(Cancelled(ans)) /\ UNCHANGED selected_version
       ELSE Goto("get_builds", {}) /\ selected_version' = ans
    /\ UNCHANGED <<fs, fs0, run, software, versions, builds, latest_build,
                   jar_file, script_created, ram_allocated, pluginLocals, startLocals>>

(***************************************************************************)
(* 3. Select Build                                                         *)
(***************************************************************************)
BuildLists(s) == IF s = "Paper" THEN PaperBuildLists ELSE PurpurBuildLists

\* the value get_builds returns for the JSON list of the registry
BuildsOf(s, list) == IF s = "Paper" THEN StrAll(list) ELSE list

\* a slip that takes the first element of the list
FirstBuildMutant(bs) == Head(bs)

\* latest_build = builds[-1]
LatestBuild(bs) == Last(bs)

GetBuilds(status, list) ==
    /\ pc = "get_builds"
    /\ status # "ok" => list = <<>>
    /\ Log("get_builds", status)
    /\ CASE status = "ok" /\ list # <<>> ->
              /\ builds' = BuildsOf(software, list)
              /\ latest_build' = LatestBuild(builds')
              /\ Goto("download_prompt", {"Latest build is " \o latest_build'})
         [] status = "ok" /\ list = <<>> ->
              /\ builds' = BuildsOf(software, list)
              /\ Unwind("IndexError")
              /\ UNCHANGED latest_build
         [] status = "RequestException" ->
              /\ SysExit({"Error fetching builds"})
              /\ UNCHANGED <<builds, latest_build>>
         [] OTHER ->
              /\ Unwind(status)
              /\ UNCHANGED <<builds, latest_build>>
    /\ UNCHANGED <<fs, fs0, run, software, versions, selected_version,
                   jar_file, script_created, ram_allocated, pluginLocals, startLocals>>

PromptDownload(ans) ==
    /\ pc = "download_prompt"
    /\ Log("download_prompt", ans)
    /\ CASE ans = None -> RaiseAfter("TypeError", Cancelled(ans))
         [] ans = "no" -> Return({"Aborted."})
         [] OTHER -> Goto("download", {})
    /\ UNCHANGED <<fs, fs0, run, locals>>

(***************************************************************************)
(* 4. Download                                                             *)
(***************************************************************************)
\* jar_name of download_server
JarName(s, v, b) == Lower(s) \o "-" \o v \o "-" \o b \o ".jar"

DownloadOutcomes == {"ok", "RequestException", "OSError", "KeyboardInterrupt"}

\* download_server and the test of its result in main.  A failed download
\* may have opened the file (created) before it failed.
DownloadServer(outcome, created) ==
    /\ pc = "download"
    /\ outcome = "ok" => ~created
    /\ Log("download", outcome)
    /\ LET jar_name == JarName(software, selected_version, latest_build)
       IN  /\ fs' = IF outcome = "ok" \/ created
                    THEN [fs EXCEPT !.jars = @ \cup {jar_name}]
                    ELSE fs
           /\ CASE outcome = "ok" ->
                     /\ jar_file' = jar_name
                     /\ Goto("eula_check", {"Successfully downloaded"})
                [] outcome = "RequestException" ->
                     /\ jar_file' = None
                     /\ Return({"Error downloading server"})
                [] OTHER ->
                     /\ Unwind(outcome)
                     /\ UNCHANGED jar_file
    /\ UNCHANGED <<fs0, run, software, versions, selected_version, builds, latest_build,
                   script_created, ram_allocated, pluginLocals, startLocals>>

(***************************************************************************)
(* 5. EULA                                                                 *)
(***************************************************************************)
\* a slip that asks for consent whatever the directory holds
EulaAlwaysAbsentMutant(d) == FALSE

\* os.path.exists("eula.txt")
EulaExists(d) == d.eula # "absent"

EulaCheck ==
    /\ pc = "eula_check"
    /\ IF EulaExists(fs)
       THEN Log("eula_check", "exists") /\ Goto("plugin_prompt", {"eula.txt already exists."})
       ELSE Log("eula_check", "absent") /\ Goto("eula_prompt", {})
    /\ UNCHANGED <<fs, fs0, run, locals>>

\* a slip that takes every answer of the EULA prompt for consent
AnyAnswerAgreesMutant(ans) == TRUE

\* the truth value of inquirer.prompt(eula_q)["eula"]
Agreed(ans) == ans = "yes"

PromptEula(ans) ==
    /\ pc = "eula_prompt"
    /\ Log("eula_prompt", ans)
    /\ CASE ans = None -> RaiseAfter("TypeError", Cancelled(ans))
         [] ans # None /\ Agreed(ans) -> Goto("agree_to_eula", {})
         [] OTHER -> Return({"You must agree to the EULA to run the server."})
    /\ UNCHANGED <<fs, fs0, run, locals>>

WriteOutcomes == {"ok", "OSError", "KeyboardInterrupt"}

\* agree_to_eula: open("eula.txt", "w") truncates the file, write fills it
AgreeToEula(outcome, created) ==
    /\ pc = "agree_to_eula"
    /\ outcome = "ok" => ~created
    /\ Log("agree_to_eula", outcome)
    /\ IF outcome = "ok"
       THEN /\ fs' = [fs EXCEPT !.eula = EulaText]
            /\ Goto("plugin_prompt", {"Auto-agreeing to EULA...", "EULA agreed."})
       ELSE /\ fs' = IF created THEN [fs EXCEPT !.eula = ""] ELSE fs
            /\ RaiseAfter(outcome, {"Auto-agreeing to EULA..."})
    /\ UNCHANGED <<fs0, run, locals>>

(***************************************************************************)
(* 6. Install Plugins                                                      *)
(***************************************************************************)
PromptPlugins(ans) ==
    /\ pc = "plugin_prompt"
    /\ Log("plugin_prompt", ans)
    /\ CASE ans = None ->
              /\ RaiseAfter("TypeError", Cancelled(ans))
              /\ UNCHANGED idx
         [] ans = "yes" ->
              /\ Goto("resolve", {"Plugin Quickstart", "Checking plugin compatibility..."})
              /\ idx' = 1
         [] OTHER ->
              /\ Goto("java_prompt", {})
              /\ UNCHANGED idx
    /\ UNCHANGED <<fs, fs0, run, mainLocals, startLocals, valid_plugins, choices,
                   selected_names, responses, fetched>>

\* A value that may be None is a tuple: <<>> is None, <<v>> is the value v.

\* get_modrinth_version: versions[0], or None for an empty list and for a
\* failed request
ModrinthVersion(resp) ==
    IF resp.status = "ok" /\ resp.json # <<>> THEN <<resp.json[1]>> ELSE <<>>

\* a slip that offers a plugin whatever the registry answered
OfferAllMutant(ver) == TRUE

\* if ver:
Compatible(ver) == ver # <<>>

\* the registry's answer as the operator of the registry sees it
ResponseKind(resp) ==
    CASE resp.status # "ok" -> resp.status
      [] resp.json = <<>> -> "empty"
      [] OTHER -> "versions"

\* install_plugins returns: its locals are gone
PluginsReturn ==
    /\ valid_plugins' = <<>>
    /\ choices' = <<>>
    /\ selected_names' = <<>>
    /\ idx' = 0
    /\ responses' = <<>>
    /\ fetched' = <<>>

\* one turn of the compatibility loop, and after its last turn the test of
\* an empty offer list
ResolvePlugin(queried, resp) ==
    /\ pc = "resolve"
    /\ idx \in 1..Len(plugins)
    /\ queried = plugins[idx][2]
    /\ LET name == plugins[idx][1]
           slug == plugins[idx][2]
           ver == ModrinthVersion(resp)
           offer == IF Compatible(ver) THEN Append(choices, name) ELSE choices
           said == {}
       IN  /\ CASE resp.status = "KeyboardInterrupt" ->
                     /\ Unwind("KeyboardInterrupt")
                     /\ responses' = responses @@ (name :> ResponseKind(resp))
                     /\ UNCHANGED <<valid_plugins, choices, selected_names, idx, fetched>>
                [] resp.status # "KeyboardInterrupt" /\ idx < Len(plugins) ->
                     /\ Goto("resolve", said)
                     /\ responses' = responses @@ (name :> ResponseKind(resp))
                     /\ valid_plugins' = IF Compatible(ver)
                                         THEN valid_plugins @@ (name :> <<slug, ver>>)
                                         ELSE valid_plugins
                     /\ choices' = offer
                     /\ idx' = idx + 1
                     /\ UNCHANGED <<selected_names, fetched>>
                [] resp.status # "KeyboardInterrupt" /\ idx = Len(plugins) /\ offer # <<>> ->
                     /\ Goto("select", said)
                     /\ responses' = responses @@ (name :> ResponseKind(resp))
                     /\ valid_plugins' = IF Compatible(ver)
                                         THEN valid_plugins @@ (name :> <<slug, ver>>)
                                         ELSE valid_plugins
                     /\ choices' = offer
                     /\ idx' = idx + 1
                     /\ UNCHANGED <<selected_names, fetched>>
                [] OTHER ->
                     /\ Goto("java_prompt", said \cup {"No compatible plugins found for this version."})
                     /\ PluginsReturn
    /\ events' = IF pc' = "java_prompt"
                 THEN events \cup {<<"install_plugins", "no_compatible">>}
                 ELSE events
    /\ UNCHANGED <<fs, fs0, run, mainLocals, startLocals>>

\* the sublists of the offer list, in its order
Picks(offer) ==
    {SelectSeq(offer, LAMBDA n : n \in S) : S \in SUBSET {offer[i] : i \in 1..Len(offer)}}

\* the checkbox prompt and the test of an empty selection
SelectPlugins(answered, picked) ==
    /\ pc = "select"
    /\ picked \in Picks(choices)
    /\ answered \/ picked = <<>>
    /\ CASE ~answered ->
              /\ Goto("java_prompt", {"Cancelled by user"})
              /\ Log("install_plugins", "cancelled")
              /\ PluginsReturn
         [] answered /\ picked = <<>> ->
              /\ Goto("java_prompt", {"No plugins selected."})
              /\ Log("install_plugins", "none_selected")
              /\ PluginsReturn
         [] OTHER ->
              /\ Goto("mkdir", {})
              /\ selected_names' = picked
              /\ UNCHANGED <<events, valid_plugins, choices, idx, responses, fetched>>
    /\ UNCHANGED <<fs, fs0, run, mainLocals, startLocals>>

\* if not os.path.exists("plugins"): os.makedirs("plugins")
MakePluginsDir(outcome) ==
    /\ pc = "mkdir"
    /\ outcome \in {"ok", "OSError"}
    /\ fs.plugins.exists => outcome = "ok"
    /\ IF outcome = "ok"
       THEN /\ fs' = [fs EXCEPT !.plugins.exists = TRUE]
            /\ Goto("fetch", {})
            /\ idx' = 1
       ELSE /\ Unwind(outcome)
            /\ UNCHANGED <<fs, idx>>
    /\ UNCHANGED <<events, fs0, run, mainLocals, startLocals, valid_plugins, choices,
                   selected_names, responses, fetched>>

Min(S) == CHOOSE x \in S : \A y \in S : x <= y

\* next((f for f in files if f.get("primary")), files[0] if files else None)
PrimaryFile(files) ==
    LET flagged == {i \in 1..Len(files) : files[i].primary}
    IN  IF flagged # {} THEN <<files[Min(flagged)]>>
        ELSE IF files # <<>> THEN <<files[1]>> ELSE <<>>

\* one turn of the download loop.  A failed write may have created the file.
FetchPlugin(outcome, created) ==
    /\ pc = "fetch"
    /\ idx \in 1..Len(selected_names)
    /\ outcome \in WriteOutcomes \cup {"RequestException"}
    /\ LET name == selected_names[idx]
           ver_data == valid_plugins[name][2][1]
           primary_file == PrimaryFile(ver_data.files)
           next == IF idx = Len(selected_names) THEN "plugins_complete" ELSE "fetch"
       IN  IF primary_file = <<>>
           THEN /\ outcome = "ok" /\ ~created
                /\ Goto(next, {"Could not find file"})
                /\ fetched' = Append(fetched, <<name, "no_file">>)
                /\ idx' = idx + 1
                /\ UNCHANGED fs
           ELSE /\ created => outcome \in {"OSError", "KeyboardInterrupt"}
                /\ fetched' = Append(fetched, <<name, outcome>>)
                /\ fs' = IF outcome = "ok" \/ created
                         THEN [fs EXCEPT !.plugins.files = @ \cup {primary_file[1].filename}]
                         ELSE fs
                /\ CASE outcome = "ok" ->
                          /\ Goto(next, {})
                          /\ idx' = idx + 1
                     [] outcome = "RequestException" ->
                          /\ Goto(next, {"Failed to download"})
                          /\ idx' = idx + 1
                     [] OTHER ->
                          /\ RaiseAfter(outcome, {})
                          /\ UNCHANGED idx
    /\ UNCHANGED <<events, fs0, run, mainLocals, startLocals, valid_plugins, choices,
                   selected_names, responses>>

PluginsComplete ==
    /\ pc = "plugins_complete"
    /\ Goto("java_prompt", {"Plugin installation complete!"})
    /\ Log("install_plugins", "complete")
    /\ PluginsReturn
    /\ UNCHANGED <<fs, fs0, run, mainLocals, startLocals>>

(***************************************************************************)
(* 7. Check Java                                                           *)
(***************************************************************************)
PromptJava(ans) ==
    /\ pc = "java_prompt"
    /\ Log("java_prompt", ans)
    /\ CASE ans = None -> RaiseAfter("TypeError", Cancelled(ans))
         [] ans = "yes" -> Goto("check_java", {})
         [] OTHER -> Goto("script_prompt", {})
    /\ UNCHANGED <<fs, fs0, run, locals>>

JavaOutcomes == {"ok", "failed", "FileNotFoundError", "KeyboardInterrupt"}

\* check_java and the warning of main
CheckJava(outcome) ==
    /\ pc = "check_java"
    /\ Log("check_java", IF outcome = "KeyboardInterrupt" THEN outcome ELSE "returned")
    /\ CASE outcome = "ok" ->
              Goto("script_prompt", {"Checking Java Runtime Environment"})
         [] outcome \in {"failed", "FileNotFoundError"} ->
              Goto("script_prompt", {"Checking Java Runtime Environment",
                                     "Warning: Java check failed."})
         [] OTHER -> RaiseAfter(outcome, {"Checking Java Runtime Environment"})
    /\ UNCHANGED <<fs, fs0, run, locals>>

(***************************************************************************)
(* 8. Create Start Script                                                  *)
(***************************************************************************)
\* the tuning flags of AIKARS_FLAGS between the heap flags and -jar
GcFlags == "-XX:+UseG1GC ... -Daikars.new.flags=true"

\* "#!/bin/sh\n" + AIKARS_FLAGS.format(ram=ram, jar_name=jar_name)
ScriptText(jar_name, r) ==
    "#!/bin/sh\n" \o "java -Xms" \o r \o " -Xmx" \o r \o " " \o GcFlags
                  \o " -jar " \o jar_name \o " nogui"

PromptScript(ans) ==
    /\ pc = "script_prompt"
    /\ Log("script_prompt", ans)
    /\ CASE ans = None -> RaiseAfter("TypeError", Cancelled(ans))
         [] ans = "yes" -> Goto("ram_prompt", {})
         [] OTHER -> Goto("start_prompt", {})
    /\ UNCHANGED <<fs, fs0, run, locals>>

\* the RAM prompt of main: the answers hold a text or the prompt was
\* cancelled
PromptRam(ans) ==
    /\ pc = "ram_prompt"
    /\ Log("ram_prompt", ans)
    /\ IF ans = None
       THEN Goto("start_prompt", Cancelled(ans)) /\ UNCHANGED ram_allocated
       ELSE Goto("create_script", {}) /\ ram_allocated' = ans
    /\ UNCHANGED <<fs, fs0, run, software, versions, selected_version, builds,
                   latest_build, jar_file, script_created, pluginLocals, startLocals>>

ScriptOutcomes == {"ok", "IOError_open", "IOError_chmod", "KeyboardInterrupt"}

\* create_start_script and the assignment of its result in main: every
\* IOError is caught and makes the result False
CreateStartScript(outcome) ==
    /\ pc = "create_script"
    /\ Log("create_script", outcome)
    /\ LET content == ScriptText(jar_file, ram_allocated)
       IN  fs' = CASE outcome = "ok" ->
                      [fs EXCEPT !.startsh = [exists |-> TRUE, text |-> content, exec |-> TRUE]]
                   [] outcome = "IOError_chmod" ->
                      [fs EXCEPT !.startsh = [exists |-> TRUE, text |-> content, exec |-> @.exec]]
                   [] OTHER -> fs
    /\ CASE outcome = "ok" ->
              /\ Goto("start_prompt", {"Created start.sh with Aikar's flags."})
              /\ script_created' = TRUE
         [] outcome = "KeyboardInterrupt" ->
              /\ Unwind(outcome)
              /\ UNCHANGED script_created
         [] OTHER ->
              /\ Goto("start_prompt", {"Error creating start script"})
              /\ UNCHANGED script_created
    /\ UNCHANGED <<fs0, run, software, versions, selected_version, builds,
                   latest_build, jar_file, ram_allocated, pluginLocals, startLocals>>

(***************************************************************************)
(* 9. Start Server                                                         *)
(***************************************************************************)
\* the call start_server(jar_file, ram=ram_allocated, use_script=script_created)
PromptStart(ans) ==
    /\ pc = "start_prompt"
    /\ Log("start_prompt", ans)
    /\ CASE ans = None ->
              /\ RaiseAfter("TypeError", Cancelled(ans))
              /\ UNCHANGED ram
         [] ans = "yes" ->
              /\ Goto("start_server", {})
              /\ ram' = ram_allocated
         [] OTHER ->
              /\ Return({})
              /\ UNCHANGED ram
    /\ UNCHANGED <<fs, fs0, run, mainLocals, pluginLocals, cmd>>

\* not ram
Falsy(v) == v = None \/ v = ""

\* a slip that runs the script whenever a RAM text was entered for it
ScriptWhenRamMutant == ram_allocated # None

\* the argument use_script of start_server
UseScript == script_created

JavaCmd(r, jar_name) == <<"java", "-Xms" \o r, "-Xmx" \o r, "-jar", jar_name, "nogui">>

\* start_server up to its prompt or its command
StartServer ==
    /\ pc = "start_server"
    /\ CASE UseScript ->
              /\ Goto("run", {"Starting Server via start.sh"})
              /\ cmd' = <<"./start.sh">>
         [] ~UseScript /\ Falsy(ram) ->
              /\ Goto("start_ram_prompt", {"Starting Server: " \o jar_file})
              /\ UNCHANGED cmd
         [] OTHER ->
              /\ Goto("run", {"Starting Server: " \o jar_file})
              /\ cmd' = JavaCmd(ram, jar_file)
    /\ UNCHANGED <<events, fs, fs0, run, mainLocals, pluginLocals, ram>>

\* the RAM prompt of start_server
PromptStartRam(ans) ==
    /\ pc = "start_ram_prompt"
    /\ Log("start_ram_prompt", ans)
    /\ IF ans = None
       THEN /\ Return(Cancelled(ans))
            /\ UNCHANGED <<ram, cmd>>
       ELSE /\ Goto("run", {})
            /\ ram' = ans
            /\ cmd' = JavaCmd(ans, jar_file)
    /\ UNCHANGED <<fs, fs0, run, mainLocals, pluginLocals>>

RunOutcomes == {"exited", "KeyboardInterrupt", "OSError"}

\* subprocess.run(cmd) inside try/except KeyboardInterrupt
RunServer(outcome) ==
    /\ pc = "run"
    /\ Log("run", outcome)
    /\ CASE outcome = "exited" -> Return({"Running command"})
         [] outcome = "KeyboardInterrupt" -> Return({"Running command", "Server stopped."})
         [] OTHER -> RaiseAfter(outcome, {"Running command"})
    /\ UNCHANGED <<fs, fs0, run, locals>>

(***************************************************************************)
(* The script is started again in the same directory.                      *)
(***************************************************************************)
NewRun ==
    /\ pc = "done"
    /\ run < MaxRuns
    /\ pc' = "software_prompt"
    /\ exit' = ""
    /\ console' = {}
    /\ events' = {}
    /\ fs' = fs
    /\ fs0' = fs
    /\ run' = run + 1
    /\ software' = None
    /\ versions' = <<>>
    /\ selected_version' = None
    /\ builds' = <<>>
    /\ latest_build' = None
    /\ jar_file' = None
    /\ valid_plugins' = <<>>
    /\ choices' = <<>>
    /\ selected_names' = <<>>
    /\ idx' = 0
    /\ responses' = <<>>
    /\ fetched' = <<>>
    /\ script_created' = FALSE
    /\ ram_allocated' = None
    /\ ram' = None
    /\ cmd' = <<>>

(***************************************************************************)
(* The next-state relation, for the inputs in: the choices of the software *)
(* prompt, the catalog's versions, its build lists for each software, the  *)
(* texts of the RAM prompts and the registry's answers for each slug.      *)
(***************************************************************************)
Step(in) ==
    \/ \E ans \in in.software \cup {None} : PromptSoftware(ans)
    \/ \E status \in CatalogStatus : GetVersions(status, in.versions)
    \/ \E ans \in {versions[i] : i \in 1..Len(versions)} \cup {None} : PromptVersion(ans)
    \/ \E status \in CatalogStatus :
          \E list \in (IF software \in DOMAIN in.builds THEN in.builds[software] ELSE {}) :
             GetBuilds(status, list)
    \/ \E ans \in ConfirmAnswers : PromptDownload(ans)
    \/ \E outcome \in DownloadOutcomes : \E created \in BOOLEAN :
          DownloadServer(outcome, created)
    \/ EulaCheck
    \/ \E ans \in ConfirmAnswers : PromptEula(ans)
    \/ \E outcome \in WriteOutcomes : \E created \in BOOLEAN :
          AgreeToEula(outcome, created)
    \/ \E ans \in ConfirmAnswers : PromptPlugins(ans)
    \/ \E slug \in DOMAIN in.modrinth : \E resp \in in.modrinth[slug] :
          ResolvePlugin(slug, resp)
    \/ \E answered \in BOOLEAN : \E picked \in Picks(choices) : SelectPlugins(answered, picked)
    \/ \E outcome \in {"ok", "OSError"} : MakePluginsDir(outcome)
    \/ \E outcome \in WriteOutcomes \cup {"RequestException"} : \E created \in BOOLEAN :
          FetchPlugin(outcome, created)
    \/ PluginsComplete
    \/ \E ans \in ConfirmAnswers : PromptJava(ans)
    \/ \E outcome \in JavaOutcomes : CheckJava(outcome)
    \/ \E ans \in ConfirmAnswers : PromptScript(ans)
    \/ \E ans \in in.ram \cup {None} : PromptRam(ans)
    \/ \E outcome \in ScriptOutcomes : CreateStartScript(outcome)
    \/ \E ans \in ConfirmAnswers : PromptStart(ans)
    \/ StartServer
    \/ \E ans \in in.ram \cup {None} : PromptStartRam(ans)
    \/ \E outcome \in RunOutcomes : RunServer(outcome)

\* every input of the model
AllInputs ==
    [software |-> SoftwareChoices,
     versions |-> CatalogVersions,
     builds |-> [s \in SoftwareChoices |-> BuildLists(s)],
     ram |-> RamTexts,
     modrinth |-> [slug \in {plugins[i][2] : i \in 1..Len(plugins)} |-> ModrinthResponses(slug)]]

\* one run of the script
Next == Step(AllInputs)

Spec == Init /\ [][Next]_vars

(***************************************************************************)
(* Runs that follow each other in one directory.  What one run leaves in   *)
(* the directory is what the next run finds; the inputs are those of one   *)
(* software, one version and one build list, and a registry that knows one *)
(* version of each plugin.                                                 *)
(***************************************************************************)
FewInputs ==
    [software |-> {"Paper"},
     versions |-> <<"1.21">>,
     builds |-> [s \in {"Paper"} |-> {<<10, 11, 12>>}],
     ram |-> {"4G"},
     modrinth |-> [slug \in {plugins[i][2] : i \in 1..Len(plugins)} |->
                     [status : {"RequestException"}, json : {<<>>}] \cup
                     [status : {"ok"}, json : {<<VerPrimary(slug)>>}]]]

NextRuns == NewRun \/ Step(FewInputs)

SpecRuns == Init /\ [][NextRuns]_vars

(***************************************************************************)
(* What a state tells about the run so far.                                *)
(***************************************************************************)
\* step ended with outcome in this run
Asked(step, outcome) == <<step, outcome>> \in events

\* step was executed in this run
Ran(step) == \E e \in events : e[1] = step

\* the steps of main() in the order of the script
StepOrder ==
    <<"software_prompt", "get_versions", "version_prompt", "get_builds",
      "download_prompt", "download", "eula_check", "eula_prompt", "agree_to_eula",
      "plugin_prompt", "install_plugins", "java_prompt", "check_java",
      "script_prompt", "ram_prompt", "create_script", "start_prompt",
      "start_ram_prompt", "run">>

Position(step) == CHOOSE i \in 1..Len(StepOrder) : StepOrder[i] = step

\* a step after step was executed in this run
RanAfter(step) == \E e \in events : Position(e[1]) > Position(step)

\* the confirmation prompts of main()
ConfirmPrompts ==
    {"download_prompt", "eula_prompt", "plugin_prompt", "java_prompt",
     "script_prompt", "start_prompt"}

\* the elements of a list
Elems(seq) == {seq[i] : i \in 1..Len(seq)}

(***************************************************************************)
(* C1.  A confirmation prompt of main() that is answered "no" or returns   *)
(* None ends the run: no later step is executed and main() returns, it     *)
(* does not end with an uncaught exception.                                *)
(***************************************************************************)
C1_DeclineEndsRunQuietly ==
    \A p \in ConfirmPrompts :
        (Asked(p, "no") \/ Asked(p, None)) =>
            /\ pc = "done"
            /\ exit = "return"
            /\ ~RanAfter(p)

(***************************************************************************)
(* C2.  A fatal failure (the versions or builds request fails, the         *)
(* download of the jar fails, the EULA is declined, eula.txt cannot be     *)
(* written) ends the run at once with a message and a non-zero exit        *)
(* status.                                                                 *)
(***************************************************************************)
FatalFailure ==
    \/ Asked("get_versions", "RequestException")
    \/ Asked("get_builds", "RequestException")
    \/ Asked("download", "RequestException")
    \/ Asked("download", "OSError")
    \/ Asked("eula_prompt", "no")
    \/ Asked("agree_to_eula", "OSError")

FailureMessages ==
    {"Error fetching versions", "Error fetching builds", "Error downloading server",
     "You must agree to the EULA to run the server.", "Traceback"}

C2_FatalFailureExitsNonZero ==
    FatalFailure =>
        /\ pc = "done"
        /\ console \cap FailureMessages # {}
        /\ ExitCode(exit) # 0

(***************************************************************************)
(* C3.  In every run of a sequence of runs in one directory: eula.txt is   *)
(* written (agree_to_eula is called, the text of the file changes) only    *)
(* when the file was absent at the EULA step and the operator confirmed;   *)
(* when the file exists at the EULA step, the prompt is not asked,         *)
(* agree_to_eula is not called and the text of the file stays as it was.   *)
(***************************************************************************)
C3_EulaWrittenOnlyWhenAbsent ==
    /\ (Ran("agree_to_eula") \/ pc = "agree_to_eula" \/ fs.eula # fs0.eula) =>
           /\ fs0.eula = "absent"
           /\ Asked("eula_prompt", "yes")
    /\ (Ran("eula_check") /\ fs0.eula # "absent") =>
           /\ ~Ran("eula_prompt")
           /\ ~Ran("agree_to_eula")
           /\ pc \notin {"eula_prompt", "agree_to_eula"}
           /\ fs.eula = fs0.eula

\* a second run finds the eula.txt that the first run wrote, and goes on
\* to start the server
C3_Witness ==
    /\ run = 2
    /\ fs0.eula = EulaText
    /\ Ran("eula_check")
    /\ Asked("run", "exited")

(***************************************************************************)
(* C4.  When the operator declines the EULA while eula.txt is absent, the  *)
(* run is over and the directory is as the run found it but for the jar:   *)
(* eula.txt, plugins/ and start.sh are untouched, the plugin registry was  *)
(* not asked and no server was launched.                                   *)
(***************************************************************************)
C4_DeclinedEulaTouchesNothing ==
    (Asked("eula_prompt", "no") /\ fs0.eula = "absent") =>
        /\ pc = "done"
        /\ exit = "return"
        /\ fs.eula = "absent"
        /\ fs.plugins = fs0.plugins
        /\ fs.startsh = fs0.startsh
        /\ fs.jars = fs0.jars \cup {jar_file}
        /\ responses = <<>> /\ fetched = <<>> /\ ~Ran("install_plugins")
        /\ cmd = <<>> /\ ~Ran("run")
        /\ ~RanAfter("eula_prompt")

\* the EULA is declined in a directory that holds a start.sh and plugins/
C4_Witness ==
    /\ Asked("eula_prompt", "no")
    /\ fs0 = ResetDir
    /\ jar_file = "purpur-1.21-12.jar"
    /\ pc = "done"

(***************************************************************************)
(* C5.  A registry answer that is an empty list or a failed request gives  *)
(* no version for the plugin and does not end the run; the offer list      *)
(* holds a name exactly when the registry answered with versions for it;   *)
(* and after an empty offer list the run goes on with the Java prompt.     *)
(***************************************************************************)
C5_OfferListIsTheResolvedPlugins ==
    /\ Elems(choices) = {n \in DOMAIN responses : responses[n] = "versions"}
    /\ DOMAIN valid_plugins = Elems(choices)
    /\ (pc = "done" /\ responses # <<>> /\ selected_names = <<>>) =>
           /\ exit = "KeyboardInterrupt"
           /\ \E n \in DOMAIN responses : responses[n] = "KeyboardInterrupt"
    /\ Asked("install_plugins", "no_compatible") =>
           /\ pc \in {"java_prompt", "check_java", "script_prompt", "ram_prompt",
                      "create_script", "start_prompt", "start_server",
                      "start_ram_prompt", "run", "done"}
           /\ pc = "done" => Ran("java_prompt")

\* the request for Chunky failed, the registry has versions for ViaVersion:
\* ViaVersion alone is offered
C5_Witness ==
    /\ pc = "select"
    /\ responses["Chunky"] = "RequestException"
    /\ responses["ViaVersion"] = "versions"
    /\ "Chunky" \notin Elems(choices)
    /\ "ViaVersion" \in Elems(choices)

(***************************************************************************)
(* C6.  A download of the jar that fails, by the request or by the write   *)
(* of the file, makes download_server return None, and main() returns      *)
(* without running a later step.                                           *)
(***************************************************************************)
C6_FailedDownloadReturnsNone ==
    (Asked("download", "RequestException") \/ Asked("download", "OSError")) =>
        /\ pc = "done"
        /\ jar_file = None
        /\ exit = "return"
        /\ ~RanAfter("download")

(***************************************************************************)
(* C7.  A plugin of the selection whose download fails (no file entry, a   *)
(* failed request, a failed write under plugins/) is reported and the loop *)
(* goes on with the next selected plugin.                                  *)
(***************************************************************************)
FetchFailures == {"no_file", "RequestException", "OSError"}

C7_FailedPluginIsAbsorbed ==
    (fetched # <<>> /\ Last(fetched)[2] \in FetchFailures) =>
        /\ pc \in {"fetch", "plugins_complete"}
        /\ console \cap {"Failed to download", "Could not find file"} # {}

(***************************************************************************)
(* C8.  The build that main() offers and downloads is the last element of  *)
(* the list get_builds returned, and the jar is named                      *)
(* "{software lower-cased}-{version}-{build}.jar" for that build.          *)
(***************************************************************************)
ExpectedJar ==
    (IF software = "Paper" THEN "paper-" ELSE "purpur-")
        \o selected_version \o "-" \o builds[Len(builds)] \o ".jar"

C8_LatestBuildIsLastElement ==
    /\ latest_build # None => latest_build = builds[Len(builds)]
    /\ jar_file # None => jar_file = ExpectedJar /\ jar_file \in fs.jars
    /\ Ran("download") => fs.jars \subseteq fs0.jars \cup {ExpectedJar}

\* Paper answers 12, 11: build 11 is downloaded, not the greatest
C8_Witness ==
    /\ builds = <<"12", "11">>
    /\ jar_file = "paper-1.20.1-11.jar"
    /\ jar_file \in fs.jars

(***************************************************************************)
(* C9.  An interrupt at any blocking step (a prompt, a request, a write,   *)
(* the Java check, the wait for the server) ends the run with a message    *)
(* and without an uncaught exception, and no later step is executed.       *)
(***************************************************************************)
Interrupted ==
    \/ \E e \in events : e[2] \in {None, "KeyboardInterrupt", "cancelled"}
    \/ \E n \in DOMAIN responses : responses[n] = "KeyboardInterrupt"
    \/ \E i \in 1..Len(fetched) : fetched[i][2] = "KeyboardInterrupt"

C9_InterruptEndsRunCleanly ==
    Interrupted =>
        /\ pc = "done"
        /\ exit \in {"return", "KeyboardInterrupt"}
        /\ console \cap {"Exiting...", "Server stopped.", "Cancelled by user"} # {}

(***************************************************************************)
(* C10.  When the server is launched, the command is ./start.sh exactly    *)
(* when create_start_script succeeded in this run, and start.sh then holds *)
(* the jar of this run; otherwise the command is java with -Xms and -Xmx   *)
(* of a RAM text that is not None (the text of the RAM prompt of main()    *)
(* when one was entered, else the text of the prompt of start_server) and  *)
(* the jar of this run.  When the prompt of start_server is cancelled,     *)
(* nothing is launched.                                                    *)
(***************************************************************************)
Launching == pc = "run" \/ Ran("run")

\* the RAM text a direct launch must use
LaunchRam ==
    IF ram_allocated \notin {None, ""}
    THEN {ram_allocated}
    ELSE {e[2] : e \in {x \in events : x[1] = "start_ram_prompt" /\ x[2] # None}}

C10_LaunchModeFollowsScript ==
    /\ Launching =>
          /\ (cmd = <<"./start.sh">>) <=> Asked("create_script", "ok")
          /\ Asked("create_script", "ok") =>
                /\ fs.startsh.exists /\ fs.startsh.exec
                /\ fs.startsh.text = "#!/bin/sh\njava -Xms" \o ram_allocated \o " -Xmx"
                        \o ram_allocated \o " " \o GcFlags \o " -jar " \o jar_file \o " nogui"
                /\ jar_file \in fs.jars
          /\ ~Asked("create_script", "ok") =>
                \E r \in LaunchRam :
                    /\ r # None
                    /\ cmd = <<"java", "-Xms" \o r, "-Xmx" \o r, "-jar", jar_file, "nogui">>
    /\ Asked("start_ram_prompt", None) => ~Launching /\ cmd = <<>>

\* start.sh could not be made executable: the server is started with java
\* and the RAM text entered for the script
C10_Witness ==
    /\ Asked("create_script", "IOError_chmod")
    /\ ram_allocated = "4G"
    /\ ~Ran("start_ram_prompt")
    /\ Asked("run", "exited")
    /\ cmd[1] = "java"

====
